---- MODULE Spec2Model ----
(***************************************************************************)
(* Model of app.py: six tool coroutines (get_crypto_price,                 *)
(* get_crypto_stats, get_top_gainers, get_global_market,                   *)
(* calculate_portfolio, explain_crypto_term) and the chainlit message      *)
(* handler chainlit_main.  Every await of a coroutine is a point where the *)
(* coroutine is suspended; the action that resumes it takes what the       *)
(* awaited call produced (a value or an exception) as its input.           *)
(***************************************************************************)
EXTENDS Integers, Sequences, FiniteSets, TLC

\* ------------------------------------------------------------------ bounds
MaxSymLen == 2      \* longest symbol / term argument, in characters
MaxQtyLen == 2      \* longest btc / eth argument, in characters
NSlots == 2         \* tool invocations that may run at the same time
MaxRounds == 3      \* rounds of the runner explored in one turn
MaxBatch == 2       \* largest tool batch the model proposes in a round

Slots == 1..NSlots

\* --------------------------------------------------------- text and numbers
\* A text is a sequence of pieces: the literal parts of an f-string are one
\* piece each, an interpolated str is its characters.
SymChars == {"b", "T", "1"}
QtyChars == {"0", "1", "a"}

RECURSIVE SeqsUpTo(_, _)
SeqsUpTo(S, n) ==
    IF n = 0 THEN {<<>>}
    ELSE LET shorter == SeqsUpTo(S, n - 1)
         IN  shorter \cup {Append(q, c) : q \in shorter, c \in S}

Symbols == SeqsUpTo(SymChars, MaxSymLen)
Quantities == SeqsUpTo(QtyChars, MaxQtyLen)

upper_char(c) == CASE c = "b" -> "B" [] c = "t" -> "T" [] OTHER -> c
lower_char(c) == CASE c = "B" -> "b" [] c = "T" -> "t" [] OTHER -> c
upper(s) == [i \in 1..Len(s) |-> upper_char(s[i])]
lower(s) == [i \in 1..Len(s) |-> lower_char(s[i])]

Contains(text, sub) ==
    \E i \in 1..(Len(text) + 1) :
        /\ i + Len(sub) - 1 <= Len(text)
        /\ SubSeq(text, i, i + Len(sub) - 1) = sub

Digits == {"0", "1", "2", "3", "4", "5", "6", "7", "8", "9"}
DigitVal(c) == CASE c = "0" -> 0 [] c = "1" -> 1 [] c = "2" -> 2 [] c = "3" -> 3
                 [] c = "4" -> 4 [] c = "5" -> 5 [] c = "6" -> 6 [] c = "7" -> 7
                 [] c = "8" -> 8 [] c = "9" -> 9
DigitChar(d) == CASE d = 0 -> "0" [] d = 1 -> "1" [] d = 2 -> "2" [] d = 3 -> "3"
                  [] d = 4 -> "4" [] d = 5 -> "5" [] d = 6 -> "6" [] d = 7 -> "7"
                  [] d = 8 -> "8" [] d = 9 -> "9"

\* float(s) on the strings of the model: a non-empty run of decimal digits
\* parses to its value, anything else raises ValueError.
float_ok(s) == Len(s) > 0 /\ \A i \in 1..Len(s) : s[i] \in Digits
RECURSIVE float(_)
float(s) == IF Len(s) = 0 THEN 0
            ELSE 10 * float(SubSeq(s, 1, Len(s) - 1)) + DigitVal(s[Len(s)])

RECURSIVE str_int(_)
str_int(n) == IF n < 10 THEN <<DigitChar(n)>>
              ELSE Append(str_int(n \div 10), DigitChar(n % 10))
\* format(x, ".2f") of a float with an integral value
fmt_2f(n) == str_int(n) \o <<".", "0", "0">>

\* ------------------------------------------------------------- JSON values
Obj(f) == [type |-> "object", val |-> f]
Arr(q) == [type |-> "array", val |-> q]
JsonNull == [type |-> "null", val |-> <<>>]
NoData == [type |-> "none", val |-> <<>>]

Num(n) == [type |-> "number", val |-> n]
Str(q) == [type |-> "str", val |-> q]

PriceStrings == {<<"2">>, <<"1", "0">>}
TickerBodies == {Obj([price |-> Str(p)]) : p \in PriceStrings}
                \cup {Obj([msg |-> Str(<<"Invalid symbol.">>)]), JsonNull}

\* Exceptions an awaited outbound call can raise into the coroutine.  The
\* source passes no timeout; TimeoutError is the client library's default
\* timeout elapsing.
TransportErrors == {"ClientError", "TimeoutError"}
JsonErrors == TransportErrors \cup {"ContentTypeError"}

\* coins/markets records (CoinGecko); a field may be null or absent
CoinOK == Obj([name |-> Str(<<"B", "t", "c">>), symbol |-> Str(<<"b", "t", "c">>),
               current_price |-> Num(2), price_change_percentage_24h |-> Num(1),
               market_cap |-> Num(5), total_volume |-> Num(3)])
CoinNullChange == Obj([name |-> Str(<<"E", "t", "h">>), symbol |-> Str(<<"e", "t", "h">>),
               current_price |-> Num(2), price_change_percentage_24h |-> JsonNull,
               market_cap |-> Num(5), total_volume |-> Num(3)])
CoinNullCap == Obj([name |-> Str(<<"X">>), symbol |-> Str(<<"x">>),
               current_price |-> Num(2), price_change_percentage_24h |-> Num(1),
               market_cap |-> JsonNull, total_volume |-> Num(3)])
CoinNoName == Obj([symbol |-> Str(<<"y">>), current_price |-> Num(2)])
ErrorBody == Obj([status |-> Str(<<"rate limited">>)])
MarketBodies == {Arr(<<>>), Arr(<<CoinOK>>), Arr(<<CoinNullChange>>),
                 Arr(<<CoinNullCap>>), Arr(<<CoinNoName>>),
                 Arr(<<CoinOK, CoinNullChange>>), ErrorBody, JsonNull}

GlobalOK == Obj([data |-> Obj([total_market_cap |-> Obj([usd |-> Num(9)]),
                               total_volume |-> Obj([usd |-> Num(4)]),
                               market_cap_percentage |-> Obj([btc |-> Num(5)])])])
GlobalNullUsd == Obj([data |-> Obj([total_market_cap |-> Obj([usd |-> JsonNull]),
                               total_volume |-> Obj([usd |-> Num(4)]),
                               market_cap_percentage |-> Obj([btc |-> Num(5)])])])
GlobalNoVolume == Obj([data |-> Obj([total_market_cap |-> Obj([usd |-> Num(9)])])])
GlobalBodies == {GlobalOK, GlobalNullUsd, GlobalNoVolume, ErrorBody, JsonNull}

\* chat.completions responses
ChatResponses == {[choices |-> <<>>],
                  [choices |-> <<[content |-> JsonNull]>>],
                  [choices |-> <<[content |-> Str(<<>>)]>>],
                  [choices |-> <<[content |-> Str(<<"It means ...">>)]>>]}
ChatErrors == {"APIConnectionError", "TimeoutError"}

\* what a coroutine body ends with
Ret(t) == [outcome |-> "returned", text |-> t, exc |-> "none"]
Exc(e) == [outcome |-> "raised", text |-> <<>>, exc |-> e]

\* j[k] for a str key k: the exception it raises, "none" if it succeeds
subscript_exc(j, k) ==
    IF j.type = "object"
    THEN IF k \in DOMAIN j.val THEN "none" ELSE "KeyError"
    ELSE "TypeError"
\* the first exception raised by evaluating j[k] for the keys of ks in order
RECURSIVE first_exc(_, _)
first_exc(j, ks) ==
    IF Len(ks) = 0 THEN "none"
    ELSE IF subscript_exc(j, Head(ks)) # "none" THEN subscript_exc(j, Head(ks))
    ELSE first_exc(j, Tail(ks))
\* format(v, spec) with a numeric format spec (",", ".2f", ",.2f")
numfmt_exc(v) == IF v.type = "number" THEN "none" ELSE "TypeError"
\* format(v, "") : str(v)
str_val(v) == CASE v.type = "number" -> str_int(v.val)
                [] v.type = "str" -> v.val
                [] v.type = "null" -> <<"None">>
                [] OTHER -> <<"...">>

\* ---------------------------------------------------- bodies of the tools
\* (emoji of the source's literals are left out of the pieces)

price_url(symbol) == <<"https://api.binance.com/api/v3/ticker/price?symbol=">> \o upper(symbol)
stats_url(symbol) == <<"https://api.coingecko.com/api/v3/coins/markets?vs_currency=usd&ids=">> \o lower(symbol)
gainers_url == <<"https://api.coingecko.com/api/v3/coins/markets?vs_currency=usd&order=percent_change_24h_desc&per_page=5&page=1">>
global_url == <<"https://api.coingecko.com/api/v3/global">>
btc_url == <<"https://api.binance.com/api/v3/ticker/price?symbol=BTCUSDT">>
eth_url == <<"https://api.binance.com/api/v3/ticker/price?symbol=ETHUSDT">>

price_text_lower(symbol, data) ==
    <<"(price) ">> \o symbol \o <<" ka price hai ">> \o str_val(data.val.price) \o <<" USD.">>
price_text(symbol, data) ==
    <<"(price) ">> \o upper(symbol) \o <<" ka price hai ">> \o str_val(data.val.price) \o <<" USD.">>
not_found_text(symbol) == <<"(x) Symbol ">> \o symbol \o <<" not found.">>

get_crypto_price_body(symbol, data) ==
    CASE data.type = "object" ->
            IF "price" \in DOMAIN data.val THEN Ret(price_text(symbol, data))
            ELSE Ret(not_found_text(symbol))
      [] data.type = "array" -> Ret(not_found_text(symbol))
      [] OTHER -> Exc("TypeError")

stats_keys == <<"name", "current_price", "price_change_percentage_24h", "market_cap">>
get_crypto_stats_body(symbol, data) ==
    CASE data.type = "null" -> Ret(<<"(x) Data not found for ">> \o symbol)
      [] data.type = "array" /\ Len(data.val) = 0 ->
            Ret(<<"(x) Data not found for ">> \o symbol)
      [] data.type = "object" -> Exc("KeyError")
      [] OTHER ->
            LET coin == data.val[1] IN
            IF first_exc(coin, stats_keys) # "none" THEN Exc(first_exc(coin, stats_keys))
            ELSE IF numfmt_exc(coin.val.market_cap) # "none" THEN Exc("TypeError")
            ELSE IF subscript_exc(coin, "total_volume") # "none" THEN Exc("KeyError")
            ELSE IF numfmt_exc(coin.val.total_volume) # "none" THEN Exc("TypeError")
            ELSE Ret(<<"(stats) ">> \o str_val(coin.val.name) \o <<" Stats:\n", "Price: $">>
                     \o str_val(coin.val.current_price) \o <<"\n", "24h Change: ">>
                     \o str_val(coin.val.price_change_percentage_24h) \o <<"%\n", "Market Cap: $">>
                     \o str_val(coin.val.market_cap) \o <<"\n", "Volume: $">>
                     \o str_val(coin.val.total_volume))

gainer_keys == <<"name", "symbol", "price_change_percentage_24h">>
RECURSIVE gainers_loop(_, _)
gainers_loop(msg, coins) ==
    IF Len(coins) = 0 THEN Ret(msg)
    ELSE LET coin == Head(coins) IN
         IF first_exc(coin, gainer_keys) # "none" THEN Exc(first_exc(coin, gainer_keys))
         ELSE IF numfmt_exc(coin.val.price_change_percentage_24h) # "none" THEN Exc("TypeError")
         ELSE gainers_loop(msg \o str_val(coin.val.name) \o <<" (">> \o str_val(coin.val.symbol)
                               \o <<"): ">> \o fmt_2f(coin.val.price_change_percentage_24h.val)
                               \o <<"%\n">>,
                           Tail(coins))
get_top_gainers_body(data) ==
    CASE data.type = "array" -> gainers_loop(<<"(top) Top 5 Gainers:\n">>, data.val)
      [] data.type = "object" /\ DOMAIN data.val = {} -> Ret(<<"(top) Top 5 Gainers:\n">>)
      [] OTHER -> Exc("TypeError")

get_global_market_body(data) ==
    IF subscript_exc(data, "data") # "none" THEN Exc(subscript_exc(data, "data"))
    ELSE LET m == data.val.data IN
         IF subscript_exc(m, "total_market_cap") # "none"
         THEN Exc(subscript_exc(m, "total_market_cap"))
         ELSE IF subscript_exc(m.val.total_market_cap, "usd") # "none"
         THEN Exc(subscript_exc(m.val.total_market_cap, "usd"))
         ELSE IF numfmt_exc(m.val.total_market_cap.val.usd) # "none" THEN Exc("TypeError")
         ELSE IF subscript_exc(m, "total_volume") # "none"
         THEN Exc(subscript_exc(m, "total_volume"))
         ELSE IF subscript_exc(m.val.total_volume, "usd") # "none"
         THEN Exc(subscript_exc(m.val.total_volume, "usd"))
         ELSE IF numfmt_exc(m.val.total_volume.val.usd) # "none" THEN Exc("TypeError")
         ELSE IF subscript_exc(m, "market_cap_percentage") # "none"
         THEN Exc(subscript_exc(m, "market_cap_percentage"))
         ELSE IF subscript_exc(m.val.market_cap_percentage, "btc") # "none"
         THEN Exc(subscript_exc(m.val.market_cap_percentage, "btc"))
         ELSE IF numfmt_exc(m.val.market_cap_percentage.val.btc) # "none" THEN Exc("TypeError")
         ELSE Ret(<<"(globe) Market Overview:\n", "Market Cap: $">>
                  \o fmt_2f(m.val.total_market_cap.val.usd.val) \o <<"\n", "Volume: $">>
                  \o fmt_2f(m.val.total_volume.val.usd.val) \o <<"\n", "BTC Dominance: ">>
                  \o fmt_2f(m.val.market_cap_percentage.val.btc.val) \o <<"%">>)

\* float(d["price"]) inside the try block: TRUE iff it raises nothing
price_ok(d) == /\ subscript_exc(d, "price") = "none"
               /\ d.val.price.type = "str"
               /\ float_ok(d.val.price.val)
invalid_text == <<"(x) Invalid input ya price fetch error.">>
portfolio_text(btc, eth, btc_price, eth_price) ==
    <<"(portfolio) Portfolio Value:\n", "BTC: ">> \o btc \o <<" x $">> \o fmt_2f(btc_price)
    \o <<" = $">> \o fmt_2f(float(btc) * btc_price) \o <<"\n", "ETH: ">> \o eth \o <<" x $">>
    \o fmt_2f(eth_price) \o <<" = $">> \o fmt_2f(float(eth) * eth_price) \o <<"\n", "Total: $">>
    \o fmt_2f(float(btc) * btc_price + float(eth) * eth_price)
calculate_portfolio_body(btc, eth, btc_data, eth_data) ==
    IF price_ok(btc_data) /\ price_ok(eth_data) /\ float_ok(btc) /\ float_ok(eth)
    THEN Ret(portfolio_text(btc, eth, float(btc_data.val.price.val),
                            float(eth_data.val.price.val)))
    ELSE Ret(invalid_text)

explain_crypto_term_body(response) ==
    IF Len(response.choices) = 0 THEN Exc("IndexError")
    ELSE LET content == response.choices[1].content IN
         IF content.type = "str" /\ Len(content.val) > 0 THEN Ret(content.val)
         ELSE Ret(<<"(?) Unable to explain.">>)

VARIABLES inv, openSessions, turn

vars == <<inv, openSessions, turn>>

\* One tool invocation: where its coroutine is suspended (pc), its arguments,
\* its session and open responses, the requests it has sent, the value of its
\* last await (data; btc_data is the local of calculate_portfolio), the number
\* of its awaits that timed out, and how it ended.
IdleInv == [pc |-> "idle", cap |-> "none", symbol |-> <<>>, btc |-> <<>>,
            eth |-> <<>>, sid |-> 0, responses |-> {}, data |-> NoData,
            btc_data |-> NoData,
            requests |-> <<>>, timeouts |-> 0, outcome |-> "none",
            text |-> <<>>, exc |-> "none"]

UserTexts == {<<"btc price?">>, <<"what is staking?">>, <<"top gainers">>}
FinalTexts == {<<>>, <<"BTC is at 2 USD.">>}

IdleTurn == [pc |-> "idle", input |-> <<>>, conversation |-> <<>>, rounds |-> 0,
             sent |-> <<>>, exc |-> "none"]

Init == /\ inv = [s \in Slots |-> IdleInv]
        /\ openSessions = {}
        /\ turn = IdleTurn

\* ------------------------------------------------ sessions and exit paths
\* aiohttp.ClientSession(): a new object, distinct from every live session
ClientSession ==
    CHOOSE n \in 1..(Cardinality(openSessions) + 1) :
        n \notin openSessions /\ \A m \in 1..(n - 1) : m \in openSessions

\* leaving the "async with" blocks by return: __aexit__ releases the
\* responses and closes the session
Return(s, data, text) ==
    /\ inv' = [inv EXCEPT ![s] = [@ EXCEPT !.pc = "done", !.outcome = "returned",
                                           !.data = data,
                                           !.text = text, !.responses = {}, !.sid = 0]]
    /\ openSessions' = openSessions \ {inv[s].sid}
    /\ UNCHANGED turn

\* leaving them by an exception: __aexit__ runs as well, the exception
\* goes on to the caller of the tool
Raise_leak(s, data, exc, timedout) ==
    /\ inv' = [inv EXCEPT ![s] = [@ EXCEPT !.pc = "done", !.outcome = "raised",
                                           !.data = data,
                                           !.exc = exc,
                                           !.timeouts = @ + (IF timedout THEN 1 ELSE 0)]]
    /\ UNCHANGED <<openSessions, turn>>
Raise(s, data, exc, timedout) ==
    /\ inv' = [inv EXCEPT ![s] = [@ EXCEPT !.pc = "done", !.outcome = "raised",
                                           !.data = data,
                                           !.exc = exc, !.responses = {}, !.sid = 0,
                                           !.timeouts = @ + (IF timedout THEN 1 ELSE 0)]]
    /\ openSessions' = openSessions \ {inv[s].sid}
    /\ UNCHANGED turn

\* the statements after the last await, run with the awaited value data
Finish(s, data, res) == IF res.outcome = "returned" THEN Return(s, data, res.text)
                        ELSE Raise(s, data, res.exc, FALSE)

\* "async with aiohttp.ClientSession() as session: async with
\* session.get(url)": the session is opened, the request is sent and the
\* coroutine waits for the response
open_and_get(s, cap, symbol, btc, eth, url, pc) ==
    /\ UNCHANGED turn
    /\ LET sid == ClientSession IN
       /\ inv' = [inv EXCEPT ![s] = [IdleInv EXCEPT !.pc = pc, !.cap = cap,
                                        !.symbol = symbol, !.btc = btc, !.eth = eth,
                                        !.sid = sid, !.requests = <<url>>]]
       /\ openSessions' = openSessions \cup {sid}

\* session.get(url) resumes: with the response ("ok"), after which
\* res.json() is awaited, or with an exception
get_resumed(s, r) ==
    /\ inv[s].pc = "get"
    /\ IF r = "ok"
       THEN /\ inv' = [inv EXCEPT ![s] = [@ EXCEPT !.pc = "json", !.responses = {"res"}]]
            /\ UNCHANGED <<openSessions, turn>>
       ELSE Raise(s, NoData, r, r = "TimeoutError")

\* res.json() resumes: with the parsed body, or with an exception
json_resumed(s, r, data, res) ==
    /\ inv[s].pc = "json"
    /\ IF r = "ok" THEN Finish(s, data, res) ELSE Raise(s, NoData, r, r = "TimeoutError")

\* ------------------------------------------------------------------ tools
get_crypto_price_call(s, symbol) ==
    /\ inv[s].pc = "idle"
    /\ open_and_get(s, "get_crypto_price", symbol, <<>>, <<>>, price_url(symbol), "get")
get_crypto_price_get(s, r) ==
    /\ inv[s].cap = "get_crypto_price"
    /\ get_resumed(s, r)
get_crypto_price_json(s, r, data) ==
    /\ inv[s].cap = "get_crypto_price"
    /\ json_resumed(s, r, data, get_crypto_price_body(inv[s].symbol, data))

get_crypto_stats_call(s, symbol) ==
    /\ inv[s].pc = "idle"
    /\ open_and_get(s, "get_crypto_stats", symbol, <<>>, <<>>, stats_url(symbol), "get")
get_crypto_stats_get(s, r) ==
    /\ inv[s].cap = "get_crypto_stats"
    /\ get_resumed(s, r)
get_crypto_stats_json(s, r, data) ==
    /\ inv[s].cap = "get_crypto_stats"
    /\ json_resumed(s, r, data, get_crypto_stats_body(inv[s].symbol, data))

get_top_gainers_call(s) ==
    /\ inv[s].pc = "idle"
    /\ open_and_get(s, "get_top_gainers", <<>>, <<>>, <<>>, gainers_url, "get")
get_top_gainers_get(s, r) ==
    /\ inv[s].cap = "get_top_gainers"
    /\ get_resumed(s, r)
get_top_gainers_json(s, r, data) ==
    /\ inv[s].cap = "get_top_gainers"
    /\ json_resumed(s, r, data, get_top_gainers_body(data))

get_global_market_call(s) ==
    /\ inv[s].pc = "idle"
    /\ open_and_get(s, "get_global_market", <<>>, <<>>, <<>>, global_url, "get")
get_global_market_get(s, r) ==
    /\ inv[s].cap = "get_global_market"
    /\ get_resumed(s, r)
get_global_market_json(s, r, data) ==
    /\ inv[s].cap = "get_global_market"
    /\ json_resumed(s, r, data, get_global_market_body(data))

\* calculate_portfolio: "async with session.get(btc_url) as btc_res,
\* session.get(eth_url) as eth_res" enters the first context manager, and
\* only when that has produced btc_res evaluates and enters the second
calculate_portfolio_call_concurrent(s, btc, eth) ==
    /\ inv[s].pc = "idle"
    /\ UNCHANGED turn
    /\ LET sid == ClientSession IN
       /\ inv' = [inv EXCEPT ![s] = [IdleInv EXCEPT !.pc = "get_btc",
                                        !.cap = "calculate_portfolio",
                                        !.btc = btc, !.eth = eth, !.sid = sid,
                                        !.requests = <<btc_url, eth_url>>]]
       /\ openSessions' = openSessions \cup {sid}
calculate_portfolio_call(s, btc, eth) ==
    /\ inv[s].pc = "idle"
    /\ open_and_get(s, "calculate_portfolio", <<>>, btc, eth, btc_url, "get_btc")
calculate_portfolio_get_btc(s, r) ==
    /\ inv[s].pc = "get_btc"
    /\ IF r = "ok"
       THEN /\ inv' = [inv EXCEPT ![s] = [@ EXCEPT !.pc = "get_eth",
                                                  !.responses = {"btc_res"},
                                                  !.requests = Append(@, eth_url)]]
            /\ UNCHANGED <<openSessions, turn>>
       ELSE Raise(s, NoData, r, r = "TimeoutError")
calculate_portfolio_get_eth(s, r) ==
    /\ inv[s].pc = "get_eth"
    /\ IF r = "ok"
       THEN /\ inv' = [inv EXCEPT ![s] = [@ EXCEPT !.pc = "json_btc",
                                                  !.responses = {"btc_res", "eth_res"}]]
            /\ UNCHANGED <<openSessions, turn>>
       ELSE Raise(s, NoData, r, r = "TimeoutError")
calculate_portfolio_json_btc(s, r, data) ==
    /\ inv[s].pc = "json_btc"
    /\ IF r = "ok"
       THEN /\ inv' = [inv EXCEPT ![s] = [@ EXCEPT !.pc = "json_eth", !.btc_data = data]]
            /\ UNCHANGED <<openSessions, turn>>
       ELSE Raise(s, NoData, r, r = "TimeoutError")
calculate_portfolio_json_eth(s, r, data) ==
    /\ inv[s].pc = "json_eth"
    /\ IF r = "ok"
       THEN Finish(s, data, calculate_portfolio_body(inv[s].btc, inv[s].eth,
                                                       inv[s].btc_data, data))
       ELSE Raise(s, NoData, r, r = "TimeoutError")

\* explain_crypto_term: one await of external_client.chat.completions.create,
\* no session of its own
explain_crypto_term_call(s, term) ==
    /\ inv[s].pc = "idle"
    /\ inv' = [inv EXCEPT ![s] = [IdleInv EXCEPT !.pc = "create",
                                     !.cap = "explain_crypto_term", !.symbol = term,
                                     !.requests = <<<<"chat.completions.create">>
                                                    \o <<"Mujhe '">> \o term
                                                    \o <<"' explain karo.">>>>]]
    /\ UNCHANGED <<openSessions, turn>>
explain_crypto_term_create(s, r, response) ==
    /\ inv[s].pc = "create"
    /\ IF r = "ok" THEN Finish(s, NoData, explain_crypto_term_body(response))
       ELSE Raise(s, NoData, r, r = "TimeoutError")

\* the caller of the tool has taken its result; the slot can run another
Collect(s) ==
    /\ inv[s].pc = "done"
    /\ inv' = [inv EXCEPT ![s] = IdleInv]
    /\ UNCHANGED <<openSessions, turn>>

\* The arguments the tools are called with and what the remote sides answer.
FullEnv == [syms |-> Symbols, qtys |-> Quantities, errors |-> TransportErrors,
            json_errors |-> JsonErrors, ticker |-> TickerBodies,
            market |-> MarketBodies, global |-> GlobalBodies,
            chat |-> ChatResponses, chat_errors |-> ChatErrors]

ToolStep(s, env) ==
    \/ \E symbol \in env.syms : get_crypto_price_call(s, symbol)
    \/ \E r \in {"ok"} \cup env.errors : get_crypto_price_get(s, r)
    \/ \E r \in {"ok"} \cup env.json_errors, data \in env.ticker :
          get_crypto_price_json(s, r, data)
    \/ \E symbol \in env.syms : get_crypto_stats_call(s, symbol)
    \/ \E r \in {"ok"} \cup env.errors : get_crypto_stats_get(s, r)
    \/ \E r \in {"ok"} \cup env.json_errors, data \in env.market :
          get_crypto_stats_json(s, r, data)
    \/ get_top_gainers_call(s)
    \/ \E r \in {"ok"} \cup env.errors : get_top_gainers_get(s, r)
    \/ \E r \in {"ok"} \cup env.json_errors, data \in env.market :
          get_top_gainers_json(s, r, data)
    \/ get_global_market_call(s)
    \/ \E r \in {"ok"} \cup env.errors : get_global_market_get(s, r)
    \/ \E r \in {"ok"} \cup env.json_errors, data \in env.global :
          get_global_market_json(s, r, data)
    \/ \E btc \in env.qtys, eth \in env.qtys : calculate_portfolio_call(s, btc, eth)
    \/ \E r \in {"ok"} \cup env.errors : calculate_portfolio_get_btc(s, r)
    \/ \E r \in {"ok"} \cup env.errors : calculate_portfolio_get_eth(s, r)
    \/ \E r \in {"ok"} \cup env.json_errors, data \in env.ticker :
          calculate_portfolio_json_btc(s, r, data)
    \/ \E r \in {"ok"} \cup env.json_errors, data \in env.ticker :
          calculate_portfolio_json_eth(s, r, data)
    \/ \E term \in env.syms : explain_crypto_term_call(s, term)
    \/ \E r \in {"ok"} \cup env.chat_errors, response \in env.chat :
          explain_crypto_term_create(s, r, response)
    \/ Collect(s)

\* one tool invocation at a time, every argument and answer of the bounded sets
Next == ToolStep(1, FullEnv)
Spec == Init /\ [][Next]_vars

\* NSlots invocations running at once (the runner gathers the tool calls of a
\* batch, and turns of different users overlap), on a few arguments
ConcEnv == [syms |-> {<<"b">>}, qtys |-> {<<"1">>}, errors |-> {"ClientError"},
            json_errors |-> {"ClientError"},
            ticker |-> {Obj([price |-> Str(<<"2">>)]), JsonNull},
            market |-> {Arr(<<CoinOK>>), JsonNull},
            global |-> {GlobalOK, JsonNull},
            chat |-> {[choices |-> <<[content |-> Str(<<"It means ...">>)]>>]},
            chat_errors |-> {"APIConnectionError"}]
ConcNext == \E s \in Slots : ToolStep(s, ConcEnv)
ConcSpec == Init /\ [][ConcNext]_vars

\* ------------------------------------------------------------ chainlit_main
\* chainlit_main awaits Runner.run_agent(crypto_agent, input, run_config) and
\* then sends result.final_output.  The runner is the agents library: it
\* calls the model, runs the tool calls the model asks for, feeds the outputs
\* back and calls the model again, until the model gives a final output.  The
\* call passes no turn limit and is not inside a try statement.

\* @cl.on_message: a user message arrives, the runner is started
chainlit_main_start(text) ==
    /\ turn.pc \in {"idle", "finalized", "faulted"}
    /\ turn' = [IdleTurn EXCEPT !.pc = "running", !.input = text,
                                !.conversation = <<[role |-> "system", n |-> 0],
                                                   [role |-> "user", n |-> 0]>>]
    /\ UNCHANGED <<inv, openSessions>>

\* the model asks for n tool calls; the runner runs them and appends their
\* outputs
tool_messages(n) == [i \in 1..n |-> [role |-> "tool", n |-> i]]
runner_tool_round(n) ==
    /\ turn.pc = "running" /\ turn.rounds < MaxRounds
    /\ turn' = [turn EXCEPT !.rounds = @ + 1,
                            !.conversation = @ \o <<[role |-> "assistant", n |-> n]>>
                                               \o tool_messages(n)]
    /\ UNCHANGED <<inv, openSessions>>

\* the await of line 147 resumes with a result: line 153 sends its
\* final_output
chainlit_main_send(final_output) ==
    /\ turn.pc = "running" /\ turn.rounds < MaxRounds
    /\ turn' = [turn EXCEPT !.pc = "finalized", !.sent = Append(@, final_output)]
    /\ UNCHANGED <<inv, openSessions>>

\* the await of line 147 resumes with an exception (the model call failed, or
\* the runner gave up after its limit of turns): no except clause, so the
\* exception leaves chainlit_main and line 153 is not reached
chainlit_main_raise(exc) ==
    /\ turn.pc = "running"
    /\ exc = "MaxTurnsExceeded" <=> turn.rounds = MaxRounds
    /\ turn' = [turn EXCEPT !.pc = "faulted", !.exc = exc]
    /\ UNCHANGED <<inv, openSessions>>

RunnerErrors == {"APIConnectionError", "TimeoutError", "MaxTurnsExceeded"}

TurnNext ==
    \/ \E text \in UserTexts : chainlit_main_start(text)
    \/ \E n \in 1..MaxBatch : runner_tool_round(n)
    \/ \E final_output \in FinalTexts : chainlit_main_send(final_output)
    \/ \E exc \in RunnerErrors : chainlit_main_raise(exc)
TurnSpec == Init /\ [][TurnNext]_vars

\* ================================================================= claims
IsFailureText(t) ==
    /\ Len(t) > 0
    /\ t[1] \in {"(x) Symbol ", "(x) Data not found for ",
                 "(x) Invalid input ya price fetch error.", "(?) Unable to explain."}
Issued(s, url) == \E i \in 1..Len(inv[s].requests) : inv[s].requests[i] = url
\* a lookup of calculate_portfolio is in flight: sent, its response not in
BtcInFlight(s) == /\ inv[s].cap = "calculate_portfolio" /\ inv[s].pc # "done"
                  /\ Issued(s, btc_url) /\ "btc_res" \notin inv[s].responses
EthInFlight(s) == /\ inv[s].cap = "calculate_portfolio" /\ inv[s].pc # "done"
                  /\ Issued(s, eth_url) /\ "eth_res" \notin inv[s].responses
\* a price lookup of calculate_portfolio failed: an await raised, or a body
\* came without a usable price
LookupFailed(s) ==
    \/ inv[s].exc \in JsonErrors
    \/ inv[s].btc_data # NoData /\ ~price_ok(inv[s].btc_data)
    \/ inv[s].data # NoData /\ ~price_ok(inv[s].data)

\* C1: every invocation of a tool, whatever its outbound call produces, ends
\* by returning a text; none ends by an exception leaving the tool.
C1_NeverRaises ==
    \A s \in Slots : inv[s].pc = "done" => inv[s].outcome = "returned"

\* C2: a turn in which the model asks for tools in every round ends, at the
\* round cap, finalized with one (degraded) answer sent to the user.
C2_DegradedAnswerAtCap ==
    (turn.rounds = MaxRounds /\ turn.pc # "running")
        => (turn.pc = "finalized" /\ Len(turn.sent) = 1)

\* C3: every turn that is over is finalized with exactly one message sent,
\* also when the model call failed; no turn ends in a fault.
C3_OneFinalAnswer ==
    (turn.pc \notin {"idle", "running"})
        => (turn.pc = "finalized" /\ Len(turn.sent) = 1 /\ turn.exc = "none")

\* C5: an invocation whose outbound call timed out ends by returning a
\* failure text.
C5_TimeoutIsFailureResult ==
    \A s \in Slots : (inv[s].pc = "done" /\ inv[s].timeouts > 0)
        => (inv[s].outcome = "returned" /\ IsFailureText(inv[s].text))

\* C6 (as claimed): while calculate_portfolio waits for the response to its
\* BTC request, the ETH request has been issued already.
C6_EthIssuedWithoutWaiting ==
    \A s \in Slots : BtcInFlight(s) => Issued(s, eth_url)

\* C6 (amended): calculate_portfolio issues the two lookups one after the
\* other: the ETH request is issued only once the BTC response is in, so
\* the two are never in flight together.
C6_LookupsSequential ==
    \A s \in Slots :
        /\ ~(BtcInFlight(s) /\ EthInFlight(s))
        /\ (inv[s].cap = "calculate_portfolio" /\ inv[s].pc # "done" /\ Issued(s, eth_url))
              => "btc_res" \in inv[s].responses
C6_Witness ==
    \E s \in Slots : /\ inv[s].cap = "calculate_portfolio"
                     /\ EthInFlight(s)
                     /\ inv[s].requests = <<btc_url, eth_url>>

\* C7: calculate_portfolio ends by returning the failure text whenever one
\* of its two lookups failed.
C7_AllOrNothing ==
    \A s \in Slots :
        (inv[s].cap = "calculate_portfolio" /\ inv[s].pc = "done" /\ LookupFailed(s))
            => (inv[s].outcome = "returned" /\ inv[s].text = invalid_text)

\* C8: calculate_portfolio called with a btc or eth that float() rejects
\* ends by returning the invalid-input failure text, whatever the lookups do.
C8_InvalidInputFails ==
    \A s \in Slots :
        (/\ inv[s].cap = "calculate_portfolio" /\ inv[s].pc = "done"
         /\ (~float_ok(inv[s].btc) \/ ~float_ok(inv[s].eth)))
            => (inv[s].outcome = "returned" /\ inv[s].text = invalid_text)

\* C9: get_crypto_price sends exactly one request, for the uppercased
\* symbol; when the response object has a price the returned text is a
\* success text with the uppercased symbol and the price as received, when
\* it has none the returned text is the symbol-not-found failure.
C9_PriceLookup ==
    \A s \in Slots : inv[s].cap = "get_crypto_price" =>
        /\ inv[s].requests =
              << <<"https://api.binance.com/api/v3/ticker/price?symbol=">>
                 \o upper(inv[s].symbol) >>
        /\ (inv[s].pc = "done" /\ inv[s].data.type = "object") =>
              /\ inv[s].outcome = "returned"
              /\ IF "price" \in DOMAIN inv[s].data.val
                 THEN /\ ~IsFailureText(inv[s].text)
                      /\ Contains(inv[s].text, upper(inv[s].symbol))
                      /\ Contains(inv[s].text, inv[s].data.val.price.val)
                 ELSE /\ IsFailureText(inv[s].text)
                      /\ inv[s].text = <<"(x) Symbol ">> \o inv[s].symbol \o <<" not found.">>
C9_Witness ==
    \E s \in Slots : /\ inv[s].cap = "get_crypto_price" /\ inv[s].pc = "done"
                     /\ inv[s].symbol = <<"b", "T">>
                     /\ inv[s].data = Obj([price |-> Str(<<"1", "0">>)])
                     /\ Contains(inv[s].text, <<"B", "T">>)
                     /\ Contains(inv[s].text, <<"1", "0">>)

\* C10: a session belongs to one running invocation; an invocation that is
\* over, by return or by exception, holds no open session or response, and
\* the open sessions are exactly those of the invocations still running.
Running(s) == inv[s].pc \notin {"idle", "done"}
C10_SessionsScoped ==
    /\ \A s \in Slots : ~Running(s) => (inv[s].sid = 0 /\ inv[s].responses = {})
    /\ openSessions = {inv[s].sid : s \in {t \in Slots : Running(t) /\ inv[t].sid # 0}}
    /\ \A s, t \in Slots :
          (s # t /\ Running(s) /\ Running(t) /\ inv[s].sid # 0) => inv[s].sid # inv[t].sid
C10_Witness ==
    \E s, t \in Slots :
        /\ inv[s].pc = "done" /\ inv[s].outcome = "raised"
        /\ inv[s].cap = "calculate_portfolio" /\ Len(inv[s].requests) = 2
        /\ inv[t].pc = "json" /\ inv[t].sid # 0
        /\ openSessions = {inv[t].sid}
====
